---------------------------- MODULE Spec2Model ----------------------------
(* A model of matrix/utils/os.py: run_and_stream with its streaming worker *)
(* (stream_output), stop_process, and lock_file.                           *)
(*                                                                         *)
(* One run of run_and_stream is modelled together with the operating       *)
(* system objects it touches: the child process (the leader of the new     *)
(* process group made by preexec_fn=os.setsid), one optional descendant    *)
(* of the child that inherits the pipe and stays in the group, the pipe,   *)
(* and the logging sink.  The caller thread and the worker thread each     *)
(* have a program counter named after the source line they are about to    *)
(* execute; every action is one atomic step of one of them or of the       *)
(* operating system.                                                       *)
EXTENDS Integers, Sequences, FiniteSets, TLC

(***************************************************************************)
(* Bounds of the model and constants of the program                        *)
(***************************************************************************)
\* most lines a command writes in the lifecycle specification (Spec)
MaxLines == 2
\* lines a command writes beyond the buffer capacity in SpecBuf
MaxExtra == 2
\* most exceptions the environment (logging sink, poll) raises in one run
MaxFaults == 1
\* most external stop_process calls made on a non-blocking handle
MaxStops == 2
\* most calls of lock_file, latest clock tick, largest timeout and poll interval
MaxCalls == 2
MaxTime == 4
MaxTimeout == 2
MaxPoll == 2
\* most descendants of the root given to kill_proc_tree
MaxProcs == 2
\* deque(maxlen=10), os.py line 132
K == 10
\* signal.SIGTERM, os.py line 195
SIGTERM == 15

\* exit codes the modelled commands end with ("exit 0", "exit 3")
ExitCodes == {0, 3}
\* what the command forks: nothing, a descendant that dies on SIGTERM,
\* or a descendant that ignores SIGTERM
DescKinds == {"none", "term", "ignore"}

\* Python's None / an unbound local: the empty sequence; a value v: <<v>>
None == <<>>
Some(v) == <<v>>

VARIABLES
  \* ---- the command (input of the run)
  cmd,            \* [code, nlines, desc, blocking]
  \* ---- operating system
  leader,         \* "running" | "zombie" (exited, not waited for) | "reaped"
  status,         \* exit status of the leader once it is not running
  descAlive,      \* the forked descendant is alive (it holds the pipe's write end)
  nWritten,       \* lines the leader has written to the pipe
  sigSent,        \* number of killpg calls that delivered SIGTERM to the group
  \* ---- the Popen object
  returncode,     \* process.returncode: None or Some(status)
  nRead,          \* lines read from process.stdout so far
  stdoutClosed,   \* process.stdout.close() was called
  \* ---- run_and_stream's closure
  terminate_flag, \* threading.Event
  stdout_buffer,  \* deque(maxlen=10) of lines (line i is the integer i)
  \* ---- worker thread (stream_output)
  wpc,            \* "L137f" | "L137p" | "L139" | "L141" | "L150" | "done"
  \* ---- caller thread (run_and_stream, stop_process)
  pc,             \* source line about to be executed, or "handle" | "done"
  exit_code,      \* local exit_code: None or Some(status)
  stdout_content, \* local stdout_content: None (unbound) or Some(sequence)
  pending,        \* what the try statement will deliver once finally is through
  outcome,        \* what the call delivered to its caller
  stops,          \* external stop_process calls made so far (non-blocking)
  stopRaised,     \* an external stop_process call raised
  \* ---- environment and history
  faults,         \* exceptions raised by the environment so far
  appended,       \* history: every line the worker appended, in order
  drained,        \* history: how many of them the drain of line 150 appended
  sink,           \* history: every line the worker passed to the logging sink
  \* ---- lock_file: one caller, one other holder of the lock, a clock
  now,            \* time.time(), in units of one tick
  holder,         \* who holds the exclusive lock: "none" | "other" | "caller"
  lpc,            \* "idle" | "L226" (in the loop) | "returned" | "raised"
  start_time,     \* local start_time
  timeout,        \* argument timeout
  poll_interval,  \* argument poll_interval
  wake,           \* when the pending time.sleep(poll_interval) ends
  attempts,       \* history: constructor calls made by this call
  sleeps,         \* history: time.sleep calls made by this call
  heldAll,        \* history: the other holder held the lock throughout the call
  freeAtCall,     \* history: the lock was free when the call was made
  end_time,       \* history: the clock when the call returned or raised
  calls,          \* history: lock_file calls made so far
  \* ---- kill_proc_tree: the root pid, its chain of descendants 1, 2, ...
  \* (process p is forked by process p - 1, process 1 by the root)
  including_parent, \* argument including_parent
  root,           \* "alive" | "zombie" | "gone" (no such pid)
  proc,           \* proc[p]: "unborn" | "alive" | "zombie" | "gone"
  orphan,         \* orphan[p]: the parent of p ended, p was re-parented to init
  kpc,            \* "L27" | "L28" | "L30" | "L32" | "L33" | "L35" | "returned" | "raised"
  kerror,         \* the exception kill_proc_tree raised
  children,       \* local children: the processes enumerated at line 28
  todo,           \* the children the loop of line 30 has not reached yet
  killed,         \* history: descendants sent a kill signal by the call
  rootKills,      \* history: kill signals sent to the root by the call
  graceDone,      \* history: psutil.wait_procs has returned
  atEnum,         \* history: the descendants of the root when line 28 ran
  everDesc        \* history: every process that was a descendant during the call

runVars == <<cmd, leader, status, descAlive, nWritten, sigSent, returncode,
             nRead, stdoutClosed, terminate_flag, stdout_buffer, wpc, pc,
             exit_code, stdout_content, pending, outcome, stops, stopRaised,
             faults, appended, drained, sink>>

lockVars == <<now, holder, lpc, start_time, timeout, poll_interval, wake,
              attempts, sleeps, heldAll, freeAtCall, end_time, calls>>

killVars == <<including_parent, root, proc, orphan, kpc, kerror, children, todo,
              killed, rootKills, graceDone, atEnum, everDesc>>

vars == <<runVars, lockVars, killVars>>

(***************************************************************************)
(* Operating system, pipe and Popen helpers                                *)
(***************************************************************************)
\* the pipe holds lines nRead+1 .. nWritten
PipeHasData == nRead < nWritten
\* a write end of the pipe is still open: the leader or its descendant
WriteEndsOpen == leader = "running" \/ descAlive
\* a read returns end-of-file only when every write end is closed
AtEOF == ~PipeHasData /\ ~WriteEndsOpen
\* select.select([process.stdout], [], [], t) reports the pipe readable
SelectReady == PipeHasData \/ AtEOF

\* Poll with a child that is still running taken for one that has ended
\* with status 0 (waitpid's "no change yet" answer read as an exit status)
PollNoHang(rc, ldr, st) ==
  IF rc # None THEN [ret |-> rc, leader |-> ldr]
  ELSE IF ldr = "zombie" THEN [ret |-> Some(st), leader |-> "reaped"]
  ELSE [ret |-> Some(0), leader |-> ldr]

\* Popen.poll(): the cached returncode, else waitpid(WNOHANG), which reaps a
\* zombie and caches its status; a child somebody else reaped (ECHILD) is
\* given returncode 0.  Result: the value returned and the leader's new state.
Poll(rc, ldr, st) ==
  IF rc # None THEN [ret |-> rc, leader |-> ldr]
  ELSE IF ldr = "zombie" THEN [ret |-> Some(st), leader |-> "reaped"]
  ELSE IF ldr = "reaped" THEN [ret |-> Some(0), leader |-> "reaped"]
  ELSE [ret |-> None, leader |-> ldr]

\* an append that drops the newest entry of a full buffer instead of the oldest
DequeAppendDropNewest(buf, x) ==
  IF Len(buf) >= K THEN Append(SubSeq(buf, 1, Len(buf) - 1), x) ELSE Append(buf, x)

\* deque(maxlen=10).append(x): a full deque drops its oldest entry
DequeAppend(buf, x) ==
  IF Len(buf) >= K THEN Append(Tail(buf), x) ELSE Append(buf, x)

\* a log call that forwards nothing
ForwardSkipped(s, line) == s

\* log(line.strip()): the line is passed to the logging sink (lines 112-116),
\* whether the sink then returns or raises
Forward(s, line) == Append(s, line)

\* outcomes of one call of the logging sink: TRUE returns, FALSE raises
LogOutcomes == IF faults < MaxFaults THEN {TRUE, FALSE} ELSE {TRUE}

\* the result dictionaries of lines 172-176 and 178-183, and a raised exception
NoOutcome ==
  [kind |-> "none", success |-> FALSE, exit_code |-> None, stdout |-> None, error |-> ""]
ResultDict(code, content) ==
  [kind |-> "result", success |-> (code = Some(0)), exit_code |-> code,
   stdout |-> content, error |-> ""]
ErrorDict(e, content) ==
  [kind |-> "result", success |-> FALSE, exit_code |-> None,
   stdout |-> content, error |-> e]
Raised(e) ==
  [kind |-> "raise", success |-> FALSE, exit_code |-> None, stdout |-> None, error |-> e]
HandleReturned ==
  [kind |-> "handle", success |-> FALSE, exit_code |-> None, stdout |-> None, error |-> ""]

(***************************************************************************)
(* The child process, its descendant and the signal                        *)
(***************************************************************************)
\* the command writes its next line to the pipe
ChildWrite ==
  /\ leader = "running" /\ nWritten < cmd.nlines
  /\ nWritten' = nWritten + 1
  /\ UNCHANGED <<cmd, leader, status, descAlive, sigSent, returncode, nRead,
                 stdoutClosed, terminate_flag, stdout_buffer, wpc, pc, exit_code,
                 stdout_content, pending, outcome, stops, stopRaised, faults,
                 appended, drained, sink>>
  /\ UNCHANGED <<lockVars, killVars>>

\* the command exits with its code once it has written all its lines; it
\* stays a zombie until its parent waits for it
ChildExit ==
  /\ leader = "running" /\ nWritten = cmd.nlines
  /\ leader' = "zombie" /\ status' = cmd.code
  /\ UNCHANGED <<cmd, descAlive, nWritten, sigSent, returncode, nRead,
                 stdoutClosed, terminate_flag, stdout_buffer, wpc, pc, exit_code,
                 stdout_content, pending, outcome, stops, stopRaised, faults,
                 appended, drained, sink>>
  /\ UNCHANGED <<lockVars, killVars>>

\* the descendant ends by itself
DescExit ==
  /\ descAlive
  /\ descAlive' = FALSE
  /\ UNCHANGED <<cmd, leader, status, nWritten, sigSent, returncode, nRead,
                 stdoutClosed, terminate_flag, stdout_buffer, wpc, pc, exit_code,
                 stdout_content, pending, outcome, stops, stopRaised, faults,
                 appended, drained, sink>>
  /\ UNCHANGED <<lockVars, killVars>>

\* os.killpg(pgid, SIGTERM): every member of the group gets the signal; the
\* shell dies of it (status -SIGTERM), the descendant unless it ignores it
LeaderAfterTerm == IF leader = "running" THEN "zombie" ELSE leader
StatusAfterTerm == IF leader = "running" THEN 0 - SIGTERM ELSE status
DescAfterTerm == descAlive /\ cmd.desc = "ignore"

(***************************************************************************)
(* stream_output, the worker thread (lines 134-153)                        *)
(***************************************************************************)
\* line 137, first operand: not terminate_flag.is_set()
StreamCheckFlag ==
  /\ wpc = "L137f"
  /\ wpc' = IF terminate_flag THEN "L150" ELSE "L137p"
  /\ UNCHANGED <<cmd, leader, status, descAlive, nWritten, sigSent, returncode,
                 nRead, stdoutClosed, terminate_flag, stdout_buffer, pc,
                 exit_code, stdout_content, pending, outcome, stops, stopRaised,
                 faults, appended, drained, sink>>
  /\ UNCHANGED <<lockVars, killVars>>

\* line 137, second operand: process.poll() is None
StreamPoll ==
  /\ wpc = "L137p"
  /\ LET r == Poll(returncode, leader, status) IN
       /\ returncode' = r.ret
       /\ leader' = r.leader
       /\ wpc' = IF r.ret = None THEN "L139" ELSE "L150"
  /\ UNCHANGED <<cmd, status, descAlive, nWritten, sigSent, nRead, stdoutClosed,
                 terminate_flag, stdout_buffer, pc, exit_code, stdout_content,
                 pending, outcome, stops, stopRaised, faults, appended, drained, sink>>
  /\ UNCHANGED <<lockVars, killVars>>

\* lines 139-140: select with a 0.1 s timeout
StreamSelect ==
  /\ wpc = "L139"
  /\ wpc' = IF SelectReady THEN "L141" ELSE "L137f"
  /\ UNCHANGED <<cmd, leader, status, descAlive, nWritten, sigSent, returncode,
                 nRead, stdoutClosed, terminate_flag, stdout_buffer, pc,
                 exit_code, stdout_content, pending, outcome, stops, stopRaised,
                 faults, appended, drained, sink>>
  /\ UNCHANGED <<lockVars, killVars>>

\* lines 141-146: readline; a line is logged, then appended; an exception of
\* the sink is caught at line 145 and ends the loop (the message of line 146
\* is not a line of the child and is not recorded in sink)
StreamReadline ==
  /\ wpc = "L141"
  /\ IF PipeHasData
       THEN /\ nRead' = nRead + 1
            /\ \E ok \in LogOutcomes :
                 IF ok
                   THEN /\ sink' = Forward(sink, nRead + 1)
                        /\ stdout_buffer' = DequeAppend(stdout_buffer, nRead + 1)
                        /\ appended' = Append(appended, nRead + 1)
                        /\ wpc' = "L137f"
                        /\ UNCHANGED faults
                   ELSE /\ sink' = Forward(sink, nRead + 1)
                        /\ faults' = faults + 1
                        /\ wpc' = "L150"
                        /\ UNCHANGED <<stdout_buffer, appended>>
       ELSE /\ wpc' = "L137f"
            /\ UNCHANGED <<nRead, sink, stdout_buffer, appended, faults>>
  /\ UNCHANGED <<cmd, leader, status, descAlive, nWritten, sigSent, returncode,
                 stdoutClosed, terminate_flag, pc, exit_code, stdout_content,
                 pending, outcome, stops, stopRaised, drained>>
  /\ UNCHANGED <<lockVars, killVars>>

\* lines 150-153: for line in process.stdout (a blocking read): a line is
\* appended, then logged; at end-of-file the pipe is closed.  An exception of
\* the sink leaves the thread without closing.
StreamDrain ==
  /\ wpc = "L150"
  /\ \/ /\ PipeHasData
        /\ nRead' = nRead + 1
        /\ stdout_buffer' = DequeAppend(stdout_buffer, nRead + 1)
        /\ appended' = Append(appended, nRead + 1)
        /\ drained' = drained + 1
        /\ sink' = Forward(sink, nRead + 1)
        /\ \E ok \in LogOutcomes :
             IF ok
               THEN UNCHANGED <<faults, wpc>>
               ELSE /\ faults' = faults + 1
                    /\ wpc' = "done"
        /\ UNCHANGED stdoutClosed
     \/ /\ AtEOF
        /\ stdoutClosed' = TRUE
        /\ wpc' = "done"
        /\ UNCHANGED <<nRead, stdout_buffer, appended, drained, sink, faults>>
  /\ UNCHANGED <<cmd, leader, status, descAlive, nWritten, sigSent, returncode,
                 terminate_flag, pc, exit_code, stdout_content, pending, outcome,
                 stops, stopRaised>>
  /\ UNCHANGED <<lockVars, killVars>>

(***************************************************************************)
(* run_and_stream, the caller thread (lines 159-188)                       *)
(***************************************************************************)
\* a launch that never returns the handle and falls into the wait loop
AfterLaunchFallThrough(blocking) == "L165"

\* lines 160-163: return process in non-blocking mode, else enter the try
AfterLaunch(blocking) == IF blocking THEN "L165" ELSE "handle"

\* line 159: os.getpgid(pid) raises ProcessLookupError once the pid has been
\* waited for; the statement is outside the try.  Lines 160-161: the handle
\* is returned in non-blocking mode.
LaunchLog ==
  /\ pc = "L159"
  /\ IF leader = "reaped"
       THEN /\ outcome' = Raised("ProcessLookupError")
            /\ pc' = "done"
            /\ UNCHANGED faults
       ELSE \E ok \in LogOutcomes :
              IF ok
                THEN /\ pc' = AfterLaunch(cmd.blocking)
                     /\ outcome' = IF cmd.blocking THEN outcome ELSE HandleReturned
                     /\ UNCHANGED faults
                ELSE /\ faults' = faults + 1
                     /\ outcome' = Raised("LogError")
                     /\ pc' = "done"
  /\ UNCHANGED <<cmd, leader, status, descAlive, nWritten, sigSent, returncode,
                 nRead, stdoutClosed, terminate_flag, stdout_buffer, wpc,
                 exit_code, stdout_content, pending, stops, stopRaised,
                 appended, drained, sink>>
  /\ UNCHANGED <<lockVars, killVars>>

\* the loop is left when the polled exit code is not None (line 166)
ExitSeen(code) == code # None

\* lines 164-169: exit_code = process.poll(); break when it is not None,
\* else time.sleep(1) and poll again.  An exception raised here is caught at
\* line 177.
WaitLoop ==
  /\ pc = "L165"
  /\ \/ LET r == Poll(returncode, leader, status) IN
          /\ returncode' = r.ret
          /\ leader' = r.leader
          /\ exit_code' = r.ret
          /\ pc' = IF ExitSeen(r.ret) THEN "L170" ELSE "L165"
          /\ UNCHANGED <<pending, faults>>
     \/ /\ faults < MaxFaults
        /\ faults' = faults + 1
        /\ pending' = Raised("PollError")
        /\ pc' = "L178"
        /\ UNCHANGED <<returncode, leader, exit_code>>
  /\ UNCHANGED <<cmd, status, descAlive, nWritten, sigSent, nRead, stdoutClosed,
                 terminate_flag, stdout_buffer, wpc, stdout_content, outcome,
                 stops, stopRaised, appended, drained, sink>>
  /\ UNCHANGED <<lockVars, killVars>>

\* line 170: log(f"Process exited with code {exit_code}")
LogExit ==
  /\ pc = "L170"
  /\ \E ok \in LogOutcomes :
       IF ok
         THEN /\ pc' = "L171"
              /\ UNCHANGED <<faults, pending>>
         ELSE /\ faults' = faults + 1
              /\ pending' = Raised("LogError")
              /\ pc' = "L178"
  /\ UNCHANGED <<cmd, leader, status, descAlive, nWritten, sigSent, returncode,
                 nRead, stdoutClosed, terminate_flag, stdout_buffer, wpc,
                 exit_code, stdout_content, outcome, stops, stopRaised,
                 appended, drained, sink>>
  /\ UNCHANGED <<lockVars, killVars>>

\* lines 171-176: stdout_content = "".join(stdout_buffer); the result
\* dictionary becomes the value the try statement returns
AssembleResult ==
  /\ pc = "L171"
  /\ stdout_content' = Some(stdout_buffer)
  /\ pending' = ResultDict(exit_code, Some(stdout_buffer))
  /\ pc' = "L185"
  /\ UNCHANGED <<cmd, leader, status, descAlive, nWritten, sigSent, returncode,
                 nRead, stdoutClosed, terminate_flag, stdout_buffer, wpc,
                 exit_code, outcome, stops, stopRaised, faults, appended, drained, sink>>
  /\ UNCHANGED <<lockVars, killVars>>

\* lines 177-183: the handler builds a dictionary that reads stdout_content;
\* while that local is unbound the read raises UnboundLocalError, which
\* replaces the exception being handled
HandlerValue(content, e) ==
  IF content = None THEN Raised("UnboundLocalError") ELSE ErrorDict(e, content)

ExceptHandler ==
  /\ pc = "L178"
  /\ pending' = HandlerValue(stdout_content, pending.error)
  /\ pc' = "L185"
  /\ UNCHANGED <<cmd, leader, status, descAlive, nWritten, sigSent, returncode,
                 nRead, stdoutClosed, terminate_flag, stdout_buffer, wpc,
                 exit_code, stdout_content, outcome, stops, stopRaised, faults,
                 appended, drained, sink>>
  /\ UNCHANGED <<lockVars, killVars>>

\* line 185: terminate_flag.set()
FinallySet ==
  /\ pc = "L185"
  /\ terminate_flag' = TRUE
  /\ pc' = "L186"
  /\ UNCHANGED <<cmd, leader, status, descAlive, nWritten, sigSent, returncode,
                 nRead, stdoutClosed, stdout_buffer, wpc, exit_code,
                 stdout_content, pending, outcome, stops, stopRaised, faults,
                 appended, drained, sink>>
  /\ UNCHANGED <<lockVars, killVars>>

\* line 186: output_thread.join(timeout=1.0) returns when the worker has
\* ended or when the second is over, whichever comes first
FinallyJoin ==
  /\ pc = "L186"
  /\ pc' = "L193"
  /\ UNCHANGED <<cmd, leader, status, descAlive, nWritten, sigSent, returncode,
                 nRead, stdoutClosed, terminate_flag, stdout_buffer, wpc,
                 exit_code, stdout_content, pending, outcome, stops, stopRaised,
                 faults, appended, drained, sink>>
  /\ UNCHANGED <<lockVars, killVars>>

(***************************************************************************)
(* stop_process (lines 191-197), called at line 187 or by the owner of a   *)
(* non-blocking handle                                                     *)
(***************************************************************************)
\* where the caller continues after stop_process
AfterStop == IF cmd.blocking THEN "L188" ELSE "handle"

\* the owner of a non-blocking handle calls stop_process(process)
ExternalStop ==
  /\ pc = "handle" /\ stops < MaxStops
  /\ stops' = stops + 1
  /\ pc' = "L193"
  /\ UNCHANGED <<cmd, leader, status, descAlive, nWritten, sigSent, returncode,
                 nRead, stdoutClosed, terminate_flag, stdout_buffer, wpc,
                 exit_code, stdout_content, pending, outcome, stopRaised, faults,
                 appended, drained, sink>>
  /\ UNCHANGED <<lockVars, killVars>>

\* the group is signalled only while the polled code is None (line 193)
StopNeeded(code) == code = None

\* line 193: if process and process.poll() is None
StopPoll ==
  /\ pc = "L193"
  /\ LET r == Poll(returncode, leader, status) IN
       /\ returncode' = r.ret
       /\ leader' = r.leader
       /\ pc' = IF StopNeeded(r.ret) THEN "L195" ELSE AfterStop
  /\ UNCHANGED <<cmd, status, descAlive, nWritten, sigSent, nRead, stdoutClosed,
                 terminate_flag, stdout_buffer, wpc, exit_code, stdout_content,
                 pending, outcome, stops, stopRaised, faults, appended, drained, sink>>
  /\ UNCHANGED <<lockVars, killVars>>

\* line 195: os.killpg(os.getpgid(process.pid), signal.SIGTERM); getpgid
\* raises ProcessLookupError when the worker's poll has reaped the pid since
\* line 193.  An exception in the finally block replaces the pending result.
StopKill ==
  /\ pc = "L195"
  /\ IF leader = "reaped"
       THEN /\ IF cmd.blocking
                 THEN /\ outcome' = Raised("ProcessLookupError")
                      /\ pc' = "done"
                      /\ UNCHANGED stopRaised
                 ELSE /\ stopRaised' = TRUE
                      /\ pc' = "handle"
                      /\ UNCHANGED outcome
            /\ UNCHANGED <<leader, status, descAlive, sigSent>>
       ELSE /\ leader' = LeaderAfterTerm
            /\ status' = StatusAfterTerm
            /\ descAlive' = DescAfterTerm
            /\ sigSent' = sigSent + 1
            /\ pc' = "L196"
            /\ UNCHANGED <<outcome, stopRaised>>
  /\ UNCHANGED <<cmd, nWritten, returncode, nRead, stdoutClosed, terminate_flag,
                 stdout_buffer, wpc, exit_code, stdout_content, pending, stops,
                 faults, appended, drained, sink>>
  /\ UNCHANGED <<lockVars, killVars>>

\* line 196: process.wait() blocks until the leader has ended, reaps it and
\* caches its status
StopWait ==
  /\ pc = "L196"
  /\ leader # "running"
  /\ LET r == Poll(returncode, leader, status) IN
       /\ returncode' = r.ret
       /\ leader' = r.leader
  /\ pc' = AfterStop
  /\ UNCHANGED <<cmd, status, descAlive, nWritten, sigSent, nRead, stdoutClosed,
                 terminate_flag, stdout_buffer, wpc, exit_code, stdout_content,
                 pending, outcome, stops, stopRaised, faults, appended, drained, sink>>
  /\ UNCHANGED <<lockVars, killVars>>

\* line 188: log("Subprocess killed"), then the try statement delivers its
\* pending return value or exception
FinallyLog ==
  /\ pc = "L188"
  /\ \E ok \in LogOutcomes :
       IF ok
         THEN /\ outcome' = pending
              /\ UNCHANGED faults
         ELSE /\ faults' = faults + 1
              /\ outcome' = Raised("LogError")
  /\ pc' = "done"
  /\ UNCHANGED <<cmd, leader, status, descAlive, nWritten, sigSent, returncode,
                 nRead, stdoutClosed, terminate_flag, stdout_buffer, wpc,
                 exit_code, stdout_content, pending, stops, stopRaised,
                 appended, drained, sink>>
  /\ UNCHANGED <<lockVars, killVars>>

(***************************************************************************)
(* lock_file (lines 223-235)                                               *)
(***************************************************************************)
\* portalocker.Lock(filepath, mode, flags=LockFlags.EXCLUSIVE), lines 227-229:
\* the call constructs a portalocker.Lock object.  Lock.__init__ only records
\* its arguments (fh = None); the file is opened and locked by Lock.acquire()
\* or by entering the object as a context manager, neither of which lock_file
\* does.  The constructor therefore never raises AlreadyLocked and never
\* changes who holds the lock.  h is the holder of the lock before the call.
LockCtor(h) == [raised |-> FALSE, holder |-> h]

\* the caller invokes lock_file(filepath, mode, T, P); line 224
LockFileCall ==
  /\ lpc = "idle" /\ calls < MaxCalls
  /\ \E T \in 0..MaxTimeout, P \in 1..MaxPoll :
       /\ timeout' = T
       /\ poll_interval' = P
  /\ start_time' = now
  /\ wake' = now
  /\ attempts' = 0
  /\ sleeps' = 0
  /\ heldAll' = (holder = "other")
  /\ freeAtCall' = (holder = "none")
  /\ calls' = calls + 1
  /\ lpc' = "L226"
  /\ UNCHANGED <<now, holder, end_time>>
  /\ UNCHANGED <<runVars, killVars>>

\* the deadline test of line 231
TimedOut(elapsed, T) == elapsed >= T

\* one iteration of the loop, lines 225-235, entered once the pending sleep
\* is over: return the constructed object, or on AlreadyLocked raise
\* TimeoutError when the deadline has passed, else time.sleep(poll_interval).
\* With LockCtor as the library behaves the first iteration returns; the
\* handler is taken only by a constructor that raises AlreadyLocked.
LockFileAttempt ==
  /\ lpc = "L226" /\ now >= wake
  /\ attempts' = attempts + 1
  /\ LET r == LockCtor(holder) IN
       IF ~r.raised
         THEN /\ holder' = r.holder
              /\ lpc' = "returned"
              /\ end_time' = now
              /\ UNCHANGED <<wake, sleeps>>
         ELSE IF TimedOut(now - start_time, timeout)
                THEN /\ lpc' = "raised"
                     /\ end_time' = now
                     /\ UNCHANGED <<holder, wake, sleeps>>
                ELSE /\ wake' = now + poll_interval
                     /\ sleeps' = sleeps + 1
                     /\ UNCHANGED <<holder, lpc, end_time>>
  /\ UNCHANGED <<now, start_time, timeout, poll_interval, heldAll, freeAtCall, calls>>
  /\ UNCHANGED <<runVars, killVars>>

\* the caller is done with the outcome of the call: a lock it holds is
\* released with the handle
DropHandle ==
  /\ lpc \in {"returned", "raised"}
  /\ holder' = IF holder = "caller" THEN "none" ELSE holder
  /\ lpc' = "idle"
  /\ UNCHANGED <<now, start_time, timeout, poll_interval, wake, attempts, sleeps,
                 heldAll, freeAtCall, end_time, calls>>
  /\ UNCHANGED <<runVars, killVars>>

\* another process takes the free lock
OtherAcquire ==
  /\ holder = "none"
  /\ holder' = "other"
  /\ UNCHANGED <<now, lpc, start_time, timeout, poll_interval, wake, attempts,
                 sleeps, heldAll, freeAtCall, end_time, calls>>
  /\ UNCHANGED <<runVars, killVars>>

\* the other process releases its lock
OtherRelease ==
  /\ holder = "other"
  /\ holder' = "none"
  /\ heldAll' = IF lpc = "L226" THEN FALSE ELSE heldAll
  /\ UNCHANGED <<now, lpc, start_time, timeout, poll_interval, wake, attempts,
                 sleeps, freeAtCall, end_time, calls>>
  /\ UNCHANGED <<runVars, killVars>>

\* time.time() advances
Tick ==
  /\ now < MaxTime
  /\ now' = now + 1
  /\ UNCHANGED <<holder, lpc, start_time, timeout, poll_interval, wake, attempts,
                 sleeps, heldAll, freeAtCall, end_time, calls>>
  /\ UNCHANGED <<runVars, killVars>>

(***************************************************************************)
(* kill_proc_tree (lines 26-35)                                            *)
(***************************************************************************)
Procs == 1..MaxProcs

\* p is in the process table and the chain of its parents leads to the root:
\* what psutil finds by following parent pids from the root
RECURSIVE DescOf(_, _, _)
DescOf(s, o, p) ==
  /\ p \in Procs
  /\ s[p] \in {"alive", "zombie"}
  /\ ~o[p]
  /\ (p = 1 \/ DescOf(s, o, p - 1))

\* an enumeration of the direct children of the root only
EnumerateDirect(s, o) == {p \in {1} : DescOf(s, o, p)}

\* parent.children(recursive=True), line 28
Enumerate(s, o) == {p \in Procs : DescOf(s, o, p)}

\* a process that ends leaves its child to init
OrphanAfter(o, p) ==
  IF p + 1 \in Procs /\ proc[p + 1] \in {"alive", "zombie"}
    THEN [o EXCEPT ![p + 1] = TRUE] ELSE o

\* the call has begun and is not over
KillRunning == kpc \notin {"returned", "raised"}

\* process p - 1 (the root for p = 1) forks process p
ProcFork ==
  /\ \E p \in Procs :
       /\ proc[p] = "unborn"
       /\ IF p = 1 THEN root = "alive" ELSE proc[p - 1] = "alive"
       /\ proc' = [proc EXCEPT ![p] = "alive"]
       /\ everDesc' = IF KillRunning /\ DescOf(proc', orphan, p)
                        THEN everDesc \cup {p} ELSE everDesc
  /\ UNCHANGED <<including_parent, root, orphan, kpc, kerror, children, todo,
                 killed, rootKills, graceDone, atEnum>>
  /\ UNCHANGED <<runVars, lockVars>>

\* a descendant ends by itself and stays a zombie until it is waited for
ProcExit ==
  /\ \E p \in Procs :
       /\ proc[p] = "alive"
       /\ proc' = [proc EXCEPT ![p] = "zombie"]
       /\ orphan' = OrphanAfter(orphan, p)
  /\ UNCHANGED <<including_parent, root, kpc, kerror, children, todo, killed,
                 rootKills, graceDone, atEnum, everDesc>>
  /\ UNCHANGED <<runVars, lockVars>>

\* the parent of an ended descendant waits for it: the pid is gone
ProcReaped ==
  /\ \E p \in Procs :
       /\ proc[p] = "zombie"
       /\ proc' = [proc EXCEPT ![p] = "gone"]
  /\ UNCHANGED <<including_parent, root, orphan, kpc, kerror, children, todo,
                 killed, rootKills, graceDone, atEnum, everDesc>>
  /\ UNCHANGED <<runVars, lockVars>>

\* the root ends by itself
RootExit ==
  /\ root = "alive"
  /\ root' = "zombie"
  /\ orphan' = OrphanAfter(orphan, 0)
  /\ UNCHANGED <<including_parent, proc, kpc, kerror, children, todo, killed,
                 rootKills, graceDone, atEnum, everDesc>>
  /\ UNCHANGED <<runVars, lockVars>>

\* the parent of the ended root waits for it
RootReaped ==
  /\ root = "zombie"
  /\ root' = "gone"
  /\ UNCHANGED <<including_parent, proc, orphan, kpc, kerror, children, todo,
                 killed, rootKills, graceDone, atEnum, everDesc>>
  /\ UNCHANGED <<runVars, lockVars>>

\* line 27: psutil.Process(pid) raises NoSuchProcess for a pid that does not exist
KillLookup ==
  /\ kpc = "L27"
  /\ IF root = "gone"
       THEN kpc' = "raised" /\ kerror' = "NoSuchProcess"
       ELSE kpc' = "L28" /\ UNCHANGED kerror
  /\ UNCHANGED <<including_parent, root, proc, orphan, children, todo, killed,
                 rootKills, graceDone, atEnum, everDesc>>
  /\ UNCHANGED <<runVars, lockVars>>

\* lines 28-29: children = parent.children(recursive=True), enumerated once
KillEnumerate ==
  /\ kpc = "L28"
  /\ IF root = "gone"
       THEN /\ kpc' = "raised" /\ kerror' = "NoSuchProcess"
            /\ UNCHANGED <<children, todo, atEnum>>
       ELSE /\ children' = Enumerate(proc, orphan)
            /\ todo' = children'
            /\ atEnum' = {p \in Procs : DescOf(proc, orphan, p)}
            /\ kpc' = "L30"
            /\ UNCHANGED kerror
  /\ UNCHANGED <<including_parent, root, proc, orphan, killed, rootKills,
                 graceDone, everDesc>>
  /\ UNCHANGED <<runVars, lockVars>>

\* lines 30-31: child.kill() for the next enumerated child; psutil raises
\* NoSuchProcess when the pid is gone, and nothing catches it
KillChild ==
  /\ kpc = "L30"
  /\ \E p \in todo :
       IF proc[p] = "gone"
         THEN /\ kpc' = "raised" /\ kerror' = "NoSuchProcess"
              /\ UNCHANGED <<proc, orphan, todo, killed>>
         ELSE /\ killed' = killed \cup {p}
              /\ todo' = todo \ {p}
              /\ proc' = [proc EXCEPT ![p] = "zombie"]
              /\ orphan' = IF proc[p] = "alive" THEN OrphanAfter(orphan, p) ELSE orphan
              /\ UNCHANGED <<kpc, kerror>>
  /\ UNCHANGED <<including_parent, root, children, rootKills, graceDone, atEnum,
                 everDesc>>
  /\ UNCHANGED <<runVars, lockVars>>

\* line 32: psutil.wait_procs(children, timeout=5) returns after at most 5 s
KillGrace ==
  /\ kpc = "L30" /\ todo = {}
  /\ graceDone' = TRUE
  /\ kpc' = "L33"
  /\ UNCHANGED <<including_parent, root, proc, orphan, kerror, children, todo,
                 killed, rootKills, atEnum, everDesc>>
  /\ UNCHANGED <<runVars, lockVars>>

\* a root killed whatever including_parent says
KillRootAlways(incl) == TRUE

\* line 33: if including_parent
KillRoot(incl) == incl

\* lines 33-34: parent.kill()
KillParent ==
  /\ kpc = "L33"
  /\ IF KillRoot(including_parent)
       THEN IF root = "gone"
              THEN /\ kpc' = "raised" /\ kerror' = "NoSuchProcess"
                   /\ UNCHANGED <<root, orphan, rootKills>>
              ELSE /\ root' = "zombie"
                   /\ orphan' = IF root = "alive" THEN OrphanAfter(orphan, 0) ELSE orphan
                   /\ rootKills' = rootKills + 1
                   /\ kpc' = "L35"
                   /\ UNCHANGED kerror
       ELSE /\ kpc' = "returned"
            /\ UNCHANGED <<root, orphan, rootKills, kerror>>
  /\ UNCHANGED <<including_parent, proc, children, todo, killed, graceDone, atEnum,
                 everDesc>>
  /\ UNCHANGED <<runVars, lockVars>>

\* line 35: parent.wait(5) returns once the root is gone (waiting for it when
\* it is a child of this process) and raises TimeoutExpired after 5 s
KillParentWait ==
  /\ kpc = "L35"
  /\ \/ /\ root' = "gone"
        /\ kpc' = "returned"
        /\ UNCHANGED kerror
     \/ /\ root # "gone"
        /\ kpc' = "raised" /\ kerror' = "TimeoutExpired"
        /\ UNCHANGED root
  /\ UNCHANGED <<including_parent, proc, orphan, children, todo, killed, rootKills,
                 graceDone, atEnum, everDesc>>
  /\ UNCHANGED <<runVars, lockVars>>

(***************************************************************************)
(* Initial states and specifications                                       *)
(***************************************************************************)
\* the state right after line 157: the child is spawned in its own group and
\* the worker thread is started
RunInit(commands) ==
  /\ cmd \in commands
  /\ leader = "running" /\ status = 0
  /\ descAlive = (cmd.desc # "none")
  /\ nWritten = 0 /\ sigSent = 0
  /\ returncode = None /\ nRead = 0 /\ stdoutClosed = FALSE
  /\ terminate_flag = FALSE /\ stdout_buffer = <<>>
  /\ wpc = "L137f" /\ pc = "L159"
  /\ exit_code = None /\ stdout_content = None
  /\ pending = NoOutcome /\ outcome = NoOutcome
  /\ stops = 0 /\ stopRaised = FALSE
  /\ faults = 0 /\ appended = <<>> /\ drained = 0 /\ sink = <<>>

\* no lock_file call is in progress
LockInit ==
  /\ now = 0 /\ holder \in {"none", "other"} /\ lpc = "idle"
  /\ start_time = 0 /\ timeout = 0 /\ poll_interval = 1 /\ wake = 0
  /\ attempts = 0 /\ sleeps = 0 /\ heldAll = FALSE /\ freeAtCall = FALSE
  /\ end_time = 0 /\ calls = 0

\* a quiescent run, for the specification of lock_file
RunIdle ==
  RunInit({[code |-> 0, nlines |-> 0, desc |-> "none", blocking |-> TRUE]})

\* a quiescent lock, for the specifications of run_and_stream
LockIdle ==
  LockInit /\ holder = "none"

\* the states in which kill_proc_tree(pid, including_parent) is called: the
\* root exists or not, and a chain of its descendants is alive
KillInit ==
  /\ including_parent \in BOOLEAN
  /\ root \in {"alive", "gone"}
  /\ proc \in [Procs -> {"alive", "unborn"}]
  /\ \A p \in Procs :
       proc[p] = "alive" => IF p = 1 THEN root = "alive" ELSE proc[p - 1] = "alive"
  /\ orphan = [p \in Procs |-> FALSE]
  /\ kpc = "L27" /\ kerror = ""
  /\ children = {} /\ todo = {} /\ killed = {}
  /\ rootKills = 0 /\ graceDone = FALSE
  /\ atEnum = {}
  /\ everDesc = {p \in Procs : DescOf(proc, orphan, p)}

\* no kill_proc_tree call, for the other specifications
KillIdle ==
  KillInit /\ including_parent /\ root = "gone"

Commands ==
  [code : ExitCodes, nlines : 0..MaxLines, desc : DescKinds, blocking : BOOLEAN]

\* commands that write more lines than the buffer holds
BufCommands ==
  [code : {0}, nlines : {K + 1 + MaxExtra}, desc : {"none", "term"}, blocking : BOOLEAN]

Init == RunInit(Commands) /\ LockIdle /\ KillIdle

InitBuf == RunInit(BufCommands) /\ LockIdle /\ KillIdle

InitLock == RunIdle /\ LockInit /\ KillIdle

InitKill == RunIdle /\ LockIdle /\ KillInit

RunNext ==
  \/ ChildWrite \/ ChildExit \/ DescExit
  \/ StreamCheckFlag \/ StreamPoll \/ StreamSelect \/ StreamReadline \/ StreamDrain
  \/ LaunchLog \/ WaitLoop \/ LogExit \/ AssembleResult \/ ExceptHandler
  \/ FinallySet \/ FinallyJoin \/ ExternalStop \/ StopPoll \/ StopKill \/ StopWait
  \/ FinallyLog

LockNext ==
  \/ LockFileCall \/ LockFileAttempt \/ DropHandle
  \/ OtherAcquire \/ OtherRelease \/ Tick

KillNext ==
  \/ ProcFork \/ ProcExit \/ ProcReaped \/ RootExit \/ RootReaped
  \/ KillLookup \/ KillEnumerate \/ KillChild \/ KillGrace \/ KillParent
  \/ KillParentWait

Next == RunNext

Spec == Init /\ [][Next]_vars

SpecBuf == InitBuf /\ [][RunNext]_vars

SpecLock == InitLock /\ [][LockNext]_vars

SpecKill == InitKill /\ [][KillNext]_vars

\* the steps of the worker thread, of the caller thread and of the command
WorkerNext ==
  StreamCheckFlag \/ StreamPoll \/ StreamSelect \/ StreamReadline \/ StreamDrain

CallerNext ==
  \/ LaunchLog \/ WaitLoop \/ LogExit \/ AssembleResult \/ ExceptHandler
  \/ FinallySet \/ FinallyJoin \/ StopPoll \/ StopKill \/ StopWait \/ FinallyLog

CommandNext == ChildWrite \/ ChildExit

\* Spec with the scheduling the program can rely on: a thread that can take
\* a step takes one, and the command writes its lines and exits.  Nothing
\* obliges a descendant of the command to end, nor the owner of a handle to
\* call stop_process.
SpecFair ==
  /\ Init /\ [][Next]_vars
  /\ WF_vars(WorkerNext) /\ WF_vars(CallerNext) /\ WF_vars(CommandNext)

(***************************************************************************)
(* Properties                                                              *)
(***************************************************************************)
\* the blocking call has ended after running its finally block
Cleaned == cmd.blocking /\ pc = "done" /\ terminate_flag
\* the blocking call has returned a result dictionary
ReturnedResult == cmd.blocking /\ pc = "done" /\ outcome.kind = "result"
\* the last K entries of a sequence
LastK(s) == IF Len(s) <= K THEN s ELSE SubSeq(s, Len(s) - K + 1, Len(s))
\* the lines 1..n in order
Lines(n) == [i \in 1..n |-> i]

\* C1: once a blocking run_and_stream has gone through its cleanup and ended,
\* no member of the command's process group is alive: neither the leader nor
\* a descendant that outlived it.
C1_GroupDeadOnReturn ==
  Cleaned => (leader # "running" /\ ~descAlive)

\* C2: after a blocking run_and_stream has returned a result, the group
\* leader is not alive and process.poll() gives its exit code, not None.
C2_LeaderDeadAfterReturn ==
  ReturnedResult => (leader # "running" /\ returncode # None)

\* a blocking call that returned a failure result (non-zero exit code)
C2_Witness ==
  ReturnedResult /\ ~outcome.success /\ outcome.exit_code = Some(3)

\* C3: with a sink and a poll that never fail, a blocking run_and_stream whose
\* child has exited with code C has, once the call is over, returned a result
\* with exit_code = C and success = (C = 0), whatever the interleaving with
\* the worker.
C3_ResultMatchesExitCode ==
  (cmd.blocking /\ pc = "done" /\ faults = 0
     /\ leader # "running" /\ status = cmd.code)
  => (/\ outcome.kind = "result"
      /\ outcome.exit_code = Some(cmd.code)
      /\ outcome.success = (cmd.code = 0))

\* Whenever a result dictionary is returned, its exit_code is the code the
\* child exited with and success says whether that code is 0 (the part of
\* C3 that the code keeps).
ResultMatchesWhenReturned ==
  ReturnedResult
  => (/\ leader # "running"
      /\ outcome.exit_code = Some(cmd.code)
      /\ outcome.success = (cmd.code = 0))

\* C4: the handler of an exception raised in the wait loop does not raise: it
\* yields a result with success = false and the exception's detail as error.
C4_HandlerYieldsErrorResult ==
  [][ExceptHandler =>
       (/\ pending'.kind = "result"
        /\ pending'.success = FALSE
        /\ pending'.error = pending.error)]_vars

\* C5: a blocking run_and_stream that has spawned its child never ends by
\* propagating an exception to its caller.
C5_NeverPropagates ==
  (cmd.blocking /\ pc = "done") => outcome.kind # "raise"

\* C6: the output buffer never holds more than K lines, and it holds exactly
\* the last K lines appended (all of them while fewer than K were appended),
\* in the order of production.
C6_BufferIsLastK ==
  /\ Len(stdout_buffer) <= K
  /\ stdout_buffer = LastK(appended)
  /\ \A i \in 1..Len(stdout_buffer) - 1 : stdout_buffer[i] < stdout_buffer[i + 1]

\* more than K lines were appended, some by the polling loop and some by the
\* final drain, and the oldest were evicted
C6_Witness ==
  /\ Len(appended) > K
  /\ drained > 0 /\ drained < Len(appended)
  /\ Len(stdout_buffer) = K
  /\ stdout_buffer[1] = Len(appended) - K + 1

\* C7: with a sink and a poll that never fail, the stdout of the result of a
\* blocking run_and_stream is the last min(m, K) of the m lines the child
\* wrote before it exited, in order.
C7_StdoutHasAllLines ==
  (ReturnedResult /\ faults = 0)
  => outcome.stdout = Some(LastK(Lines(cmd.nlines)))

\* the call of lock_file is over
LockFileOver == lpc \in {"returned", "raised"}

\* C8: lock_file returns a handle only while its caller holds the exclusive
\* lock, and when another holder kept the lock for the whole call it raises
\* TimeoutError and returns no handle.
C8_HandleOnlyWithLock ==
  /\ lpc = "returned" => holder = "caller"
  /\ (LockFileOver /\ heldAll) => lpc = "raised"

\* C9: on a lock another holder keeps, lock_file ends by raising TimeoutError
\* at the first failed attempt with elapsed time >= T, having slept P after
\* every earlier failed attempt, so that T <= elapsed < T + P.
C9_TimeoutWithinWindow ==
  (LockFileOver /\ heldAll)
  => (/\ lpc = "raised"
      /\ sleeps = attempts - 1
      /\ end_time - start_time >= timeout
      /\ end_time - start_time < timeout + poll_interval)

C11_StopIdempotent ==
  ~stopRaised /\ sigSent <= 1

\* C12: kill_proc_tree does not raise because a process is already gone: not
\* for a root pid that no longer exists, not for a descendant that ended
\* after it was enumerated.
C12_GoneIsSuccess ==
  ~(kpc = "raised" /\ kerror = "NoSuchProcess")

\* C13: the group of a run is never signalled twice, and when a blocking run
\* has ended after its cleanup the group was signalled exactly once, or at
\* least has no live member left.
C13_TerminatedExactlyOnce ==
  /\ sigSent <= 1
  /\ Cleaned => (sigSent = 1 \/ (leader # "running" /\ ~descAlive))

\* C14: in non-blocking mode the terminate flag is never set, the group is
\* not signalled before the owner calls stop_process, and the worker leaves
\* its polling loop only once the child's exit code is known (or its sink
\* raised).
C14_NonBlockingLeavesRunAlone ==
  ~cmd.blocking
  => (/\ ~terminate_flag
      /\ pc \in {"L159", "handle", "L193", "L195", "L196", "done"}
      /\ (stops = 0 => (sigSent = 0 /\ status # 0 - SIGTERM))
      /\ ((wpc \in {"L150", "done"} /\ faults = 0) => returncode # None))

\* the handle was returned while the child runs and the worker streams
C14_Witness ==
  /\ ~cmd.blocking /\ pc = "handle" /\ outcome.kind = "handle"
  /\ leader = "running" /\ nRead > 0 /\ wpc = "L139"

\* C15: the caller reads the output buffer (line 171) only after the
\* terminate flag is set and the worker has stopped.
C15_ReadAfterWorkerStopped ==
  [][AssembleResult => (terminate_flag /\ wpc = "done")]_vars

\* a sequence of line numbers in the order the child produced them
InOrder(s) == \A i \in 1..Len(s) - 1 : s[i] < s[i + 1]

\* C16: lines are appended to the buffer in the order the child produced
\* them, and passed to the logging sink in that order, by the polling loop
\* and by the drain alike, and every appended line was passed to the sink.
C16_OrderedAndForwarded ==
  /\ InOrder(appended) /\ InOrder(sink)
  /\ \A i \in 1..Len(appended) : \E j \in 1..Len(sink) : sink[j] = appended[i]

\* lines were forwarded both by the polling loop and by the drain
C16_Witness ==
  /\ Len(sink) >= 2 /\ sink = appended
  /\ drained > 0 /\ drained < Len(appended)

\* C17: whenever the worker is in a read of the pipe (readline at line 141,
\* the iteration at line 150), data or end-of-file is available.
C17_NoBlockingRead ==
  wpc \in {"L141", "L150"} => SelectReady

\* C18: once the terminate flag is set or the child has exited the worker
\* eventually stops, and a blocking call that has reached its join
\* eventually ends.
C18_WorkerEventuallyStops ==
  /\ (terminate_flag \/ leader # "running") ~> (wpc = "done")
  /\ (cmd.blocking /\ pc = "L186") ~> (pc = "done")

\* C19: the root is signalled at most once, and only with including_parent,
\* after every enumerated descendant was signalled and the grace wait was
\* over; a call with including_parent that returns has signalled it once and
\* waited for it.
C19_RootLast ==
  /\ rootKills <= 1
  /\ rootKills = 1 => (including_parent /\ children \subseteq killed /\ graceDone)
  /\ ~including_parent => rootKills = 0
  /\ (kpc \in {"L35", "returned"} /\ including_parent) => rootKills = 1
  /\ (kpc = "returned" /\ including_parent) => root = "gone"

\* a call with including_parent returned after signalling two descendants
\* and then the root
C19_Witness ==
  /\ kpc = "returned" /\ including_parent /\ rootKills = 1
  /\ Cardinality(killed) >= 2 /\ graceDone

\* C20 as claimed: when kill_proc_tree(pid, True) has returned, every process
\* that was a descendant of pid at some time during the call was sent a kill
\* signal.
C20_EveryDescendantKilled ==
  (kpc = "returned" /\ including_parent) => everDesc \subseteq killed

\* C20 as amended: when kill_proc_tree(pid, True) has returned, every process
\* that was a descendant of pid when line 28 enumerated them was sent a kill
\* signal.
C20_EnumeratedKilled ==
  (kpc = "returned" /\ including_parent) => atEnum \subseteq killed

\* the call returned, its enumerated descendants were signalled and a
\* process forked after the enumeration was not
C20_Witness ==
  /\ kpc = "returned" /\ including_parent
  /\ atEnum # {} /\ atEnum \subseteq killed
  /\ everDesc \ atEnum # {}

=============================================================================
